---- MODULE Spec2Model ----
(***************************************************************************)
(* Model of the request governor of Scanagram.py:                          *)
(*   IntelligentRateLimiter (wait_if_needed, record_request, get_stats,    *)
(*   _sleep_with_progress) and the retry_with_backoff decorator.           *)
(*                                                                         *)
(* Time is an integer number of ticks, TicksPerSecond ticks per second.    *)
(* datetime.now() is the variable clock; time.sleep(x) advances clock by   *)
(* exactly x (a simulated clock).  An Optional[datetime] that is None is   *)
(* the value NoTime.                                                       *)
(***************************************************************************)
EXTENDS Integers, Sequences, FiniteSets, TLC

\* ---------------------------------------------------------------- constants

\* resolution of the model's clock: 1 tick = 0.0001 s, fine enough for every
\* product random.uniform(-0.3, 0.3) * wait_time that a run computes to be a
\* whole number of ticks (JitterIsExact)
TicksPerSecond == 10000

\* 0.1 s, the unit in which durations with one decimal are written
Tenth == TicksPerSecond \div 10

\* Optional[datetime] = None
NoTime == -1

\* timedelta(hours=1)
OneHour == 3600 * TicksPerSecond

\* "if burst_duration < 10:  # 10 second window"
BurstWindow == 10 * TicksPerSecond

\* "if seconds < 5:" in _sleep_with_progress
ProgressThreshold == 5 * TicksPerSecond

\* deque(maxlen=200)
HistoryMaxLen == 200

\* random.uniform(-0.3, 0.3): the fraction is JitterTenths / 10
JitterTenths == 3

\* random.uniform(0.5, 2.0) seconds, in ticks
HumanMin == 5 * Tenth
HumanMax == 20 * Tenth

\* ------------------------------------------------------------------- bounds

\* wait_if_needed calls in one run of the main specification
MaxAdmits == 3
\* wait_if_needed calls in one run of the specification of long runs
MaxLongAdmits == 202
\* largest configured requests_per_hour of the main specification
MaxRph == 2

\* time that passes before a call of the caller (0 s, 10.1 s, 1 h)
ClockSteps == {0, 101 * Tenth, OneHour}
\* duration of the remote call made between admit() and record()
CallDurations == {0, 3 * Tenth}
\* draws of random.uniform(-0.3, 0.3), in tenths
JitterDraws == {-JitterTenths, 0, JitterTenths}
\* draws of random.uniform(0.5, 2.0), in ticks
HumanDraws == {HumanMin, HumanMax}

\* configurations of the main specification: CONFIG["rate_limit"] and
\* CONFIG["stealth"]["randomize_timing"]
Configs ==
    [requests_per_hour : 0..MaxRph,
     min_delay : {0, 2 * TicksPerSecond},
     burst_limit : {2, 3},
     cooldown_after_burst : {55 * Tenth},
     randomize_timing : BOOLEAN]

\* ---------------------------------------------------------------- variables

VARIABLES
    clock,            \* datetime.now()
    config,           \* self.config plus CONFIG["stealth"]["randomize_timing"]
    pc,               \* position of the caller inside wait_if_needed
    now,              \* local `now` of wait_if_needed
    wait_time,        \* local `wait_time`: the duration handed to the next sleep
    request_history,  \* self.request_history
    requests_made,    \* self.state.requests_made
    last_request,     \* self.state.last_request
    burst_count,      \* self.state.burst_count
    burst_start,      \* self.state.burst_start
    is_cooling_down,  \* self.state.is_cooling_down
    cooldown_until,   \* self.state.cooldown_until
    error,            \* exception raised by the limiter, "none" if none
    stats,            \* value returned by the last get_stats() call
    admitted,         \* wait_if_needed returned and record_request not yet called
    calls_left,       \* requests the caller still has to make (profile + posts)
    recorded,         \* timestamps of all record_request calls, oldest first
    quota_deadline,   \* min(recent) + 1 h of the quota wait of the current call
    cycles,           \* admit+record cycles completed inside the burst window
    eleventh,         \* the current admit entered the window after burst_limit cycles
    waits,            \* the sleep calls of the current wait_if_needed: step and argument
    idx,              \* analyze_posts: posts drawn from profile.get_posts()
    requests_available, \* REQUESTS_AVAILABLE
    r_pc,             \* position inside retry_with_backoff's wrapper
    max_attempts,     \* the decorator's max_attempts
    attempt,          \* loop variable `attempt`
    r_wait,           \* local `wait_time` of the wrapper
    outcomes,         \* outcome of every func(*args, **kwargs) call so far
    sleeps,           \* durations of the time.sleep calls of the wrapper
    propagated,       \* class of the exception the wrapper re-raised
    logged,           \* logger.error("... failed after N attempts") was called
    draws,            \* the random.uniform draw (in tenths) behind each entry of sleeps
    result            \* what the wrapper returned

limiterVars == <<requests_made, last_request, burst_count, burst_start,
                 is_cooling_down, cooldown_until>>
ghostVars == <<recorded, quota_deadline, cycles, eleventh>>
retryVars == <<requests_available, r_pc, max_attempts, attempt, r_wait,
               outcomes, sleeps, propagated, logged, draws, result>>
governorVars == <<config, pc, now, wait_time, request_history, limiterVars,
                  error, stats, admitted, calls_left, ghostVars, waits,
                  idx>>
vars == <<clock, governorVars, retryVars>>

\* ------------------------------------------------------------ pure helpers

Max(a, b) == IF a >= b THEN a ELSE b
Min(a, b) == IF a <= b THEN a ELSE b

\* the list of recent requests without the "if t > one_hour_ago" filter
RecentRequestsAll(h, one_hour_ago) == h

\* [t for t in self.request_history if t > one_hour_ago]
RecentRequests(h, one_hour_ago) == SelectSeq(h, LAMBDA t : t > one_hour_ago)

\* min(recent_requests), for a non-empty list
Oldest(recent) ==
    CHOOSE t \in {recent[i] : i \in 1..Len(recent)} :
        \A i \in 1..Len(recent) : t <= recent[i]

\* appendleft(x) in place of append(x)
DequeAppendLeft(h, x) ==
    IF Len(h) >= HistoryMaxLen
    THEN <<x>> \o SubSeq(h, 1, Len(h) - 1)
    ELSE <<x>> \o h

\* a bounded append that drops the new entry, not the oldest, when full
DequeAppendKeepOld(h, x) ==
    IF Len(h) >= HistoryMaxLen THEN h ELSE Append(h, x)

\* deque(maxlen=200).append(x): the oldest entry is dropped when full
DequeAppend(h, x) ==
    IF Len(h) >= HistoryMaxLen THEN Append(Tail(h), x) ELSE Append(h, x)

\* total time slept by _sleep_with_progress(seconds): time.sleep(seconds)
\* below 5 s, otherwise int(seconds) sleeps of one second each
SleepWithProgress(seconds) ==
    IF seconds < ProgressThreshold
    THEN seconds
    ELSE (seconds \div TicksPerSecond) * TicksPerSecond

\* random.uniform(-0.3, 0.3) * wait_time for the draw f/10; the product is a
\* whole number of ticks wherever a run computes it (JitterIsExact)
Jitter(f, w) ==
    IF f >= 0 THEN (f * w) \div 10 ELSE 0 - (((0 - f) * w) \div 10)

\* the spacing wait with "wait_time = jitter" in place of "wait_time += jitter"
SpacingWaitJitterOnly(time_since_last, min_delay, f) ==
    Max(0, Jitter(f, min_delay - time_since_last))

\* the spacing wait cut to one half
SpacingWaitHalved(time_since_last, min_delay, f) ==
    Max(0, ((min_delay - time_since_last)
            + Jitter(f, min_delay - time_since_last)) \div 2)

\* the spacing wait of step 3: max(0, wait_time + jitter)
SpacingWait(time_since_last, min_delay, f) ==
    Max(0, (min_delay - time_since_last) + Jitter(f, min_delay - time_since_last))

\* the dict returned by get_stats (the formatted "utilization" string is left out)
StatsValue(h, made, limit, cooling, t) ==
    [total_requests |-> made,
     last_hour |-> Len(RecentRequests(h, t - OneHour)),
     limit |-> limit,
     is_cooling_down |-> cooling]

NoStats == [total_requests |-> -1]

\* --------------------------------------------------------------------- Init

InitLimiter ==
    /\ clock = 0
    /\ pc = "idle"
    /\ now = NoTime
    /\ wait_time = 0
    /\ request_history = <<>>
    /\ requests_made = 0
    /\ last_request = NoTime
    /\ burst_count = 0
    /\ burst_start = NoTime
    /\ is_cooling_down = FALSE
    /\ cooldown_until = NoTime
    /\ error = "none"
    /\ stats = NoStats
    /\ admitted = FALSE
    /\ recorded = <<>>
    /\ quota_deadline = NoTime
    /\ cycles = 0
    /\ eleventh = FALSE
    /\ waits = <<>>
    /\ idx = 0

InitRetry ==
    /\ r_pc = "idle"
    /\ max_attempts = 0
    /\ attempt = 0
    /\ r_wait = 0
    /\ outcomes = <<>>
    /\ sleeps = <<>>
    /\ propagated = "none"
    /\ logged = FALSE
    /\ draws = <<>>
    /\ result = "none"

Init ==
    /\ config \in Configs
    /\ calls_left = MaxAdmits
    /\ requests_available = TRUE
    /\ InitLimiter
    /\ InitRetry

\* ---------------------------------------------------------- wait_if_needed

\* the caller calls wait_if_needed d ticks after its previous call returned:
\* "now = datetime.now()"
AdmitEnter(d) ==
    /\ pc = "idle"
    /\ ~admitted
    /\ calls_left > 0
    /\ clock' = clock + d
    /\ now' = clock + d
    /\ pc' = "cooldown"
    /\ calls_left' = calls_left - 1
    /\ admitted' = FALSE
    /\ stats' = NoStats
    /\ quota_deadline' = NoTime
    /\ eleventh' = (/\ burst_start # NoTime
                    /\ (clock + d) - burst_start < BurstWindow
                    /\ cycles = config.burst_limit)
    /\ UNCHANGED <<config, wait_time, request_history, limiterVars, error,
                   recorded, cycles>>
    /\ UNCHANGED idx
    /\ waits' = <<>>
    /\ UNCHANGED retryVars

\* "# 1. Check if in cooldown"
CooldownStep ==
    /\ pc = "cooldown"
    /\ IF is_cooling_down
       THEN IF now < cooldown_until
            THEN /\ wait_time' = cooldown_until - now
                 /\ pc' = "cooldown_sleep"
                 /\ UNCHANGED <<is_cooling_down, burst_count>>
            ELSE /\ is_cooling_down' = FALSE
                 /\ burst_count' = 0
                 /\ pc' = "quota"
                 /\ UNCHANGED wait_time
       ELSE /\ pc' = "quota"
            /\ UNCHANGED <<wait_time, is_cooling_down, burst_count>>
    /\ UNCHANGED <<clock, config, now, request_history, requests_made,
                   last_request, burst_start, cooldown_until, error, stats,
                   admitted, calls_left, ghostVars>>
    /\ UNCHANGED idx
    /\ UNCHANGED waits
    /\ UNCHANGED retryVars

\* the cooldown wait followed by a return from wait_if_needed
CooldownSleepReturns ==
    /\ pc = "cooldown_sleep"
    /\ clock' = clock + SleepWithProgress(wait_time)
    /\ pc' = "human"
    /\ UNCHANGED <<config, now, wait_time, request_history, limiterVars, error,
                   stats, admitted, calls_left, ghostVars>>
    /\ UNCHANGED idx
    /\ waits' = Append(waits, [step |-> "cooldown", seconds |-> wait_time])
    /\ UNCHANGED retryVars

\* self._sleep_with_progress(wait_time, "Cooldown")
CooldownSleep ==
    /\ pc = "cooldown_sleep"
    /\ clock' = clock + SleepWithProgress(wait_time)
    /\ pc' = "quota"
    /\ UNCHANGED <<config, now, wait_time, request_history, limiterVars, error,
                   stats, admitted, calls_left, ghostVars>>
    /\ UNCHANGED idx
    /\ waits' = Append(waits, [step |-> "cooldown", seconds |-> wait_time])
    /\ UNCHANGED retryVars

\* "# 2. Rolling window check (requests per hour)"
QuotaStep ==
    /\ pc = "quota"
    /\ LET recent_requests == RecentRequests(request_history, now - OneHour)
       IN IF Len(recent_requests) >= config.requests_per_hour
          THEN IF recent_requests = <<>>
               THEN \* min() of an empty list
                    /\ error' = "ValueError"
                    /\ pc' = "raised"
                    /\ UNCHANGED <<wait_time, quota_deadline>>
               ELSE /\ wait_time' = (Oldest(recent_requests) + OneHour) - now
                    /\ quota_deadline' = Oldest(recent_requests) + OneHour
                    /\ pc' = "quota_sleep"
                    /\ UNCHANGED error
          ELSE /\ pc' = "spacing"
               /\ UNCHANGED <<wait_time, quota_deadline, error>>
    /\ UNCHANGED <<clock, config, now, request_history, limiterVars, stats,
                   admitted, calls_left, recorded, cycles, eleventh>>
    /\ UNCHANGED idx
    /\ UNCHANGED waits
    /\ UNCHANGED retryVars

\* a quota sleep that never returns
QuotaSleepStuck ==
    /\ pc = "quota_sleep"
    /\ pc' = "quota_sleep"
    /\ UNCHANGED <<clock, config, now, wait_time, request_history, limiterVars,
                   error, stats, admitted, calls_left, ghostVars>>
    /\ UNCHANGED idx
    /\ UNCHANGED waits
    /\ UNCHANGED retryVars

\* self._sleep_with_progress(wait_time, "Rate Limit")
QuotaSleep ==
    /\ pc = "quota_sleep"
    /\ clock' = clock + SleepWithProgress(wait_time)
    /\ pc' = "spacing"
    /\ UNCHANGED <<config, now, wait_time, request_history, limiterVars, error,
                   stats, admitted, calls_left, ghostVars>>
    /\ UNCHANGED idx
    /\ waits' = Append(waits, [step |-> "quota", seconds |-> wait_time])
    /\ UNCHANGED retryVars

\* "# 3. Minimum delay since last request", jitter draw f/10
SpacingStep(f) ==
    /\ pc = "spacing"
    /\ IF last_request # NoTime /\ now - last_request < config.min_delay
       THEN /\ wait_time' = SpacingWait(now - last_request, config.min_delay, f)
            /\ clock' = clock + SpacingWait(now - last_request, config.min_delay, f)
            /\ waits' = Append(waits,
                   [step |-> "spacing",
                    seconds |-> SpacingWait(now - last_request, config.min_delay, f)])
       ELSE UNCHANGED <<wait_time, clock, waits>>
    /\ pc' = "burst"
    /\ UNCHANGED <<config, now, request_history, limiterVars, error, stats,
                   admitted, calls_left, ghostVars>>
    /\ UNCHANGED idx
    /\ UNCHANGED retryVars

\* "# 4. Burst detection"
BurstStep ==
    /\ pc = "burst"
    /\ IF burst_start # NoTime
       THEN IF now - burst_start < BurstWindow
            THEN /\ burst_count' = burst_count + 1
                 /\ IF burst_count + 1 >= config.burst_limit
                    THEN /\ is_cooling_down' = TRUE
                         /\ cooldown_until' = now + config.cooldown_after_burst
                         /\ wait_time' = config.cooldown_after_burst
                         /\ pc' = "burst_sleep"
                    ELSE /\ pc' = "human"
                         /\ UNCHANGED <<is_cooling_down, cooldown_until, wait_time>>
                 /\ UNCHANGED <<burst_start, cycles>>
            ELSE /\ burst_start' = now
                 /\ burst_count' = 1
                 /\ cycles' = 0
                 /\ pc' = "human"
                 /\ UNCHANGED <<is_cooling_down, cooldown_until, wait_time>>
       ELSE /\ burst_start' = now
            /\ burst_count' = 1
            /\ cycles' = 0
            /\ pc' = "human"
            /\ UNCHANGED <<is_cooling_down, cooldown_until, wait_time>>
    /\ UNCHANGED <<clock, config, now, request_history, requests_made,
                   last_request, error, stats, admitted, calls_left, recorded,
                   quota_deadline, eleventh>>
    /\ UNCHANGED idx
    /\ UNCHANGED waits
    /\ UNCHANGED retryVars

\* the burst sleep without "self.state.burst_count = 0"
BurstSleepKeepsCount ==
    /\ pc = "burst_sleep"
    /\ clock' = clock + SleepWithProgress(wait_time)
    /\ pc' = "human"
    /\ UNCHANGED <<config, now, wait_time, request_history, requests_made,
                   last_request, burst_start, is_cooling_down, cooldown_until,
                   error, stats, admitted, calls_left, ghostVars, burst_count>>
    /\ UNCHANGED idx
    /\ waits' = Append(waits, [step |-> "burst", seconds |-> wait_time])
    /\ UNCHANGED retryVars

\* self._sleep_with_progress(cooldown_after_burst, "Burst Protection");
\* self.state.burst_count = 0
BurstSleep ==
    /\ pc = "burst_sleep"
    /\ clock' = clock + SleepWithProgress(wait_time)
    /\ burst_count' = 0
    /\ pc' = "human"
    /\ UNCHANGED <<config, now, wait_time, request_history, requests_made,
                   last_request, burst_start, is_cooling_down, cooldown_until,
                   error, stats, admitted, calls_left, ghostVars>>
    /\ UNCHANGED idx
    /\ waits' = Append(waits, [step |-> "burst", seconds |-> wait_time])
    /\ UNCHANGED retryVars

\* "# 5. Human-like randomization", draw d of random.uniform(0.5, 2.0);
\* wait_if_needed returns
HumanStep(d) ==
    /\ pc = "human"
    /\ IF config.randomize_timing
       THEN /\ wait_time' = d
            /\ clock' = clock + d
            /\ waits' = Append(waits, [step |-> "human", seconds |-> d])
       ELSE UNCHANGED <<wait_time, clock, waits>>
    /\ pc' = "idle"
    /\ admitted' = TRUE
    /\ UNCHANGED <<config, now, request_history, limiterVars, error, stats,
                   calls_left, ghostVars>>
    /\ UNCHANGED idx
    /\ UNCHANGED retryVars

\* ---------------------------------------------------------- record_request

\* record_request with "requests_made = len(self.request_history)" as the counter
RecordRequestCountsHistory(d) ==
    /\ pc = "idle"
    /\ admitted
    /\ clock' = clock + d
    /\ request_history' = DequeAppend(request_history, clock + d)
    /\ last_request' = clock + d
    /\ requests_made' = Len(DequeAppend(request_history, clock + d))
    /\ recorded' = Append(recorded, clock + d)
    /\ cycles' = IF burst_start # NoTime /\ (clock + d) - burst_start < BurstWindow
                 THEN cycles + 1 ELSE cycles
    /\ admitted' = FALSE
    /\ stats' = NoStats
    /\ UNCHANGED <<config, pc, now, wait_time, burst_count, burst_start,
                   is_cooling_down, cooldown_until, error, calls_left,
                   quota_deadline, eleventh>>
    /\ UNCHANGED idx
    /\ UNCHANGED waits
    /\ UNCHANGED retryVars

\* the caller's remote call takes d ticks and succeeds; then record_request()
RecordRequest(d) ==
    /\ pc = "idle"
    /\ admitted
    /\ clock' = clock + d
    /\ request_history' = DequeAppend(request_history, clock + d)
    /\ last_request' = clock + d
    /\ requests_made' = requests_made + 1
    /\ recorded' = Append(recorded, clock + d)
    /\ cycles' = IF burst_start # NoTime /\ (clock + d) - burst_start < BurstWindow
                 THEN cycles + 1 ELSE cycles
    /\ admitted' = FALSE
    /\ stats' = NoStats
    /\ UNCHANGED <<config, pc, now, wait_time, burst_count, burst_start,
                   is_cooling_down, cooldown_until, error, calls_left,
                   quota_deadline, eleventh>>
    /\ UNCHANGED idx
    /\ UNCHANGED waits
    /\ UNCHANGED retryVars

\* a failed remote call that is recorded all the same
RemoteCallFailsRecorded(d) ==
    /\ pc = "idle"
    /\ admitted
    /\ clock' = clock + d
    /\ admitted' = FALSE
    /\ stats' = NoStats
    /\ request_history' = DequeAppend(request_history, clock + d)
    /\ last_request' = clock + d
    /\ UNCHANGED <<config, pc, now, wait_time, requests_made, burst_count,
                   burst_start, is_cooling_down, cooldown_until,
                   error, calls_left, ghostVars>>
    /\ UNCHANGED idx
    /\ UNCHANGED waits
    /\ UNCHANGED retryVars

\* the caller's remote call raises after d ticks: record_request is not called
RemoteCallFails(d) ==
    /\ pc = "idle"
    /\ admitted
    /\ clock' = clock + d
    /\ admitted' = FALSE
    /\ stats' = NoStats
    /\ UNCHANGED <<config, pc, now, wait_time, request_history, limiterVars,
                   error, calls_left, ghostVars>>
    /\ UNCHANGED idx
    /\ UNCHANGED waits
    /\ UNCHANGED retryVars

\* --------------------------------------------------------------- get_stats

\* get_stats that drops the entries older than one hour from request_history
GetStatsPruning ==
    /\ pc = "idle"
    /\ stats = NoStats
    /\ IF config.requests_per_hour = 0
       THEN /\ error' = "ZeroDivisionError"
            /\ pc' = "raised"
            /\ UNCHANGED <<stats, request_history>>
       ELSE /\ stats' = StatsValue(request_history, requests_made,
                                   config.requests_per_hour, is_cooling_down, clock)
            /\ request_history' = RecentRequests(request_history, clock - OneHour)
            /\ UNCHANGED <<error, pc>>
    /\ UNCHANGED <<clock, config, now, wait_time, limiterVars,
                   admitted, calls_left, ghostVars>>
    /\ UNCHANGED idx
    /\ UNCHANGED waits
    /\ UNCHANGED retryVars

\* get_stats(): a read of the state at the current time
GetStats ==
    /\ pc = "idle"
    /\ stats = NoStats
    /\ IF config.requests_per_hour = 0
       THEN \* len(recent) / 0
            /\ error' = "ZeroDivisionError"
            /\ pc' = "raised"
            /\ UNCHANGED stats
       ELSE /\ stats' = StatsValue(request_history, requests_made,
                                   config.requests_per_hour, is_cooling_down, clock)
            /\ UNCHANGED <<error, pc>>
    /\ UNCHANGED <<clock, config, now, wait_time, request_history, limiterVars,
                   admitted, calls_left, ghostVars>>
    /\ UNCHANGED idx
    /\ UNCHANGED waits
    /\ UNCHANGED retryVars

\* --------------------------------------------------------------------- Next

Next ==
    \/ \E d \in ClockSteps : AdmitEnter(d)
    \/ CooldownStep
    \/ CooldownSleep
    \/ QuotaStep
    \/ QuotaSleep
    \/ \E f \in JitterDraws : SpacingStep(f)
    \/ BurstStep
    \/ BurstSleep
    \/ \E d \in HumanDraws : HumanStep(d)
    \/ \E d \in CallDurations : RecordRequest(d)
    \/ \E d \in CallDurations : RemoteCallFails(d)
    \/ GetStats

Spec == Init /\ [][Next]_vars

\* ------------------------------------------------------ retry_with_backoff

\* CONFIG["retry"], delays in ticks
RetryBaseDelay == 5 * TicksPerSecond
RetryMaxDelay == 300 * TicksPerSecond
RetryExponentialBase == 2
RetryJitterTenths == 3

\* max_posts of the analyze_posts runs
MaxPosts == 3

\* wait_if_needed calls in one run under the default configuration
MaxDefaultAdmits == 10

\* largest max_attempts handed to the decorator
MaxRetryAttempts == 3

\* max_attempts of the long backoff runs: enough attempts for
\* base_delay * exponential_base ** attempt to pass max_delay
MaxBackoffAttempts == 8

\* isinstance(e, (LoginRequiredException, PrivateProfileNotFollowedException,
\*                ProfileNotExistsException))
NonRetryable ==
    {"LoginRequiredException", "PrivateProfileNotFollowedException",
     "ProfileNotExistsException"}

\* the other exceptions caught by "except (ConnectionException, Exception)"
Transient == {"ConnectionException", "Exception", "RequestException"}

\* outcomes of one call of the wrapped function
Outcomes == {"ok"} \cup Transient \cup NonRetryable

RECURSIVE Pow(_, _)
Pow(b, n) == IF n = 0 THEN 1 ELSE b * Pow(b, n - 1)

\* the delay with the exponent attempt + 1
BackoffDelayOneBased(k) == RetryBaseDelay * Pow(RetryExponentialBase, k + 1)

\* delay = base_delay * (exponential_base ** attempt)
BackoffDelay(k) == RetryBaseDelay * Pow(RetryExponentialBase, k)

\* the backoff wait without the min against max_delay
BackoffWaitUnclamped(k, f) == BackoffDelay(k) + Jitter(f, BackoffDelay(k))

\* wait_time = min(delay + jitter, max_delay), jitter = uniform(-0.3, 0.3) * delay
\* for the draw f/10
BackoffWait(k, f) == Min(BackoffDelay(k) + Jitter(f, BackoffDelay(k)), RetryMaxDelay)

\* the except clause with the non-retryable isinstance check left out
HandleRetryAll(e, k, m, req) ==
    IF k = m - 1 THEN "raise_logged" ELSE "sleep"

\* the except clause with ProfileNotExistsException left out of the
\* isinstance tuple
HandleTwoClasses(e, k, m, req) ==
    IF req /\ e = "RequestException" /\ k = m - 1
    THEN "raise_logged"
    ELSE IF e \in {"LoginRequiredException", "PrivateProfileNotFollowedException"}
         THEN "raise"
         ELSE IF k = m - 1 THEN "raise_logged" ELSE "sleep"

\* the except clause with "attempt == max_attempts" as the last-attempt test
HandleOffByOne(e, k, m, req) ==
    IF req /\ e = "RequestException" /\ k = m
    THEN "raise_logged"
    ELSE IF e \in NonRetryable
         THEN "raise"
         ELSE IF k = m THEN "raise_logged" ELSE "sleep"

\* the except clause of the wrapper for exception class e on attempt k of m:
\* re-raise after logger.error, re-raise, or back off and retry
Handle(e, k, m, req) ==
    IF req /\ e = "RequestException" /\ k = m - 1
    THEN "raise_logged"
    ELSE IF e \in NonRetryable
         THEN "raise"
         ELSE IF k = m - 1 THEN "raise_logged" ELSE "sleep"

\* the decorated function is called with the decorator's max_attempts = m:
\* "for attempt in range(max_attempts)"
RetryStart(m) ==
    /\ r_pc = "idle"
    /\ max_attempts' = m
    /\ attempt' = 0
    /\ IF m > 0
       THEN /\ r_pc' = "call"
            /\ UNCHANGED result
       ELSE /\ r_pc' = "returned"
            /\ result' = "None"
    /\ UNCHANGED <<clock, governorVars, requests_available, r_wait, outcomes,
                   sleeps, propagated, logged, draws>>

\* "return func(*args, **kwargs)" with outcome o, and the except clause;
\* f/10 is the draw of random.uniform(-jitter, jitter)
RetryInvoke(o, f) ==
    /\ r_pc = "call"
    /\ outcomes' = Append(outcomes, o)
    /\ IF o = "ok"
       THEN /\ r_pc' = "returned"
            /\ result' = "value"
            /\ UNCHANGED <<propagated, logged, r_wait, draws>>
       ELSE LET h == Handle(o, attempt, max_attempts, requests_available)
            IN IF h = "sleep"
               THEN /\ r_wait' = BackoffWait(attempt, f)
                    /\ draws' = Append(draws, f)
                    /\ r_pc' = "sleep"
                    /\ UNCHANGED <<propagated, logged, result>>
               ELSE /\ r_pc' = "raised"
                    /\ propagated' = o
                    /\ logged' = (h = "raise_logged")
                    /\ UNCHANGED <<r_wait, result, draws>>
    /\ UNCHANGED <<clock, governorVars, requests_available, max_attempts,
                   attempt, sleeps>>

\* time.sleep(wait_time) and the next iteration of the for loop; the wrapper
\* returns None when the loop runs out
RetrySleep ==
    /\ r_pc = "sleep"
    /\ clock' = clock + r_wait
    /\ sleeps' = Append(sleeps, r_wait)
    /\ attempt' = attempt + 1
    /\ IF attempt + 1 < max_attempts
       THEN /\ r_pc' = "call"
            /\ UNCHANGED result
       ELSE /\ r_pc' = "returned"
            /\ result' = "None"
    /\ UNCHANGED <<governorVars, requests_available, max_attempts, r_wait,
                   outcomes, propagated, logged, draws>>

InitRetrySpec ==
    /\ calls_left = 0
    /\ config = [requests_per_hour |-> 180, min_delay |-> 2 * TicksPerSecond,
                 burst_limit |-> 10, cooldown_after_burst |-> 60 * TicksPerSecond,
                 randomize_timing |-> TRUE]
    /\ requests_available \in BOOLEAN
    /\ InitLimiter
    /\ InitRetry

NextRetry ==
    \/ \E m \in 0..MaxRetryAttempts : RetryStart(m)
    \/ \E o \in Outcomes, f \in JitterDraws : RetryInvoke(o, f)
    \/ RetrySleep

SpecRetry == InitRetrySpec /\ [][NextRetry]_vars

\* ------------------------------------------------------ long backoff runs

\* outcomes of the wrapped function in the long backoff runs: success, one
\* exception that is retried and one that is not
BackoffOutcomes == {"ok", "ConnectionException", "ProfileNotExistsException"}

\* one decorated call with max_attempts = MaxBackoffAttempts
NextBackoff ==
    \/ RetryStart(MaxBackoffAttempts)
    \/ \E o \in BackoffOutcomes, f \in JitterDraws : RetryInvoke(o, f)
    \/ RetrySleep

SpecBackoff == InitRetrySpec /\ [][NextBackoff]_vars

\* ------------------------------------------------- long runs of the caller

\* configurations of the long runs: the defaults of CONFIG, and two with no
\* minimum delay and a short cooldown (2 s, 5.5 s)
LongConfigs ==
    {[requests_per_hour |-> 180, min_delay |-> 2 * TicksPerSecond,
      burst_limit |-> 10, cooldown_after_burst |-> 60 * TicksPerSecond,
      randomize_timing |-> TRUE],
     [requests_per_hour |-> 180, min_delay |-> 0,
      burst_limit |-> 10, cooldown_after_burst |-> 2 * TicksPerSecond,
      randomize_timing |-> FALSE],
     [requests_per_hour |-> 180, min_delay |-> 0,
      burst_limit |-> 10, cooldown_after_burst |-> 55 * Tenth,
      randomize_timing |-> FALSE]}

InitLong ==
    /\ config \in LongConfigs
    /\ calls_left = MaxLongAdmits
    /\ requests_available = TRUE
    /\ InitLimiter
    /\ InitRetry

\* the caller makes its requests back to back, every remote call succeeds at
\* once, and every random draw is the lowest one
NextLong ==
    \/ AdmitEnter(0)
    \/ CooldownStep
    \/ CooldownSleep
    \/ QuotaStep
    \/ QuotaSleep
    \/ SpacingStep(0 - JitterTenths)
    \/ BurstStep
    \/ BurstSleep
    \/ HumanStep(HumanMin)
    \/ RecordRequest(0)
    \/ GetStats

SpecLong == InitLong /\ [][NextLong]_vars

\* --------------------------------------------- runs with burst_limit = 1

\* configurations in which every wait_if_needed after the first one reaches
\* burst_limit: one request per hour or none, 2 s minimum delay, 5.5 s cooldown
WaitConfigs ==
    [requests_per_hour : {0, 1},
     min_delay : {2 * TicksPerSecond},
     burst_limit : {1},
     cooldown_after_burst : {55 * Tenth},
     randomize_timing : BOOLEAN]

InitWaits ==
    /\ config \in WaitConfigs
    /\ calls_left = MaxAdmits
    /\ requests_available = TRUE
    /\ InitLimiter
    /\ InitRetry

\* the caller of the main specification on these configurations
SpecWaits == InitWaits /\ [][Next]_vars

\* ------------------------------------------- the default configuration

\* CONFIG as shipped, with CONFIG["stealth"]["randomize_timing"] on or off
DefaultConfigs ==
    [requests_per_hour : {180},
     min_delay : {2 * TicksPerSecond},
     burst_limit : {10},
     cooldown_after_burst : {60 * TicksPerSecond},
     randomize_timing : BOOLEAN]

InitDefault ==
    /\ config \in DefaultConfigs
    /\ calls_left = MaxDefaultAdmits
    /\ requests_available = TRUE
    /\ InitLimiter
    /\ InitRetry

\* the fastest caller: every wait_if_needed is entered as soon as the previous
\* request is recorded, the remote call takes no time and the humanization
\* delay is the shortest one; the spacing jitter takes every draw. With fewer
\* than 180 requests and no cooldown the three _sleep_with_progress calls are
\* not reached.
NextDefault ==
    \/ AdmitEnter(0)
    \/ CooldownStep
    \/ QuotaStep
    \/ \E f \in JitterDraws : SpacingStep(f)
    \/ BurstStep
    \/ HumanStep(HumanMin)
    \/ RecordRequest(0)

SpecDefault == InitDefault /\ [][NextDefault]_vars

\* ---------------------------------------------------- runs to completion

\* either the limiter driven by its caller, or one decorated call on a limiter
\* that is not used
InitTermination == InitWaits \/ InitRetrySpec

NextTermination ==
    \/ Next
    \/ (now = NoTime /\ calls_left = 0 /\ NextRetry)

\* the program is sequential: a statement that can run does run, every
\* time.sleep ends and every remote call completes or raises
SpecTermination ==
    InitTermination /\ [][NextTermination]_vars /\ WF_vars(NextTermination)

\* ----------------------------------------------------------- analyze_posts

\* "@retry_with_backoff(max_attempts=3)" on analyze_posts
PostsMaxAttempts == 3

\* exceptions raised by the page fetch of profile.get_posts(): one that the
\* wrapper retries and one that it re-raises at once
PostsFailures == {"ConnectionException", "ProfileNotExistsException"}

\* the page fetch may fail while it draws one of the first MaxFailIdx + 1 posts
MaxFailIdx == 1

\* duration of a page fetch of profile.get_posts() (0.3 s)
FetchDurations == {3 * Tenth}

\* time spent in the try block of the loop body: the post is already loaded
TryDurations == {0}

\* configurations of the analyze_posts runs: a quota of 0, a quota of 1 with
\* a burst on the second call, a quota of 1 with humanized timing, and a
\* quota of 2 with a spacing of 2 s
PostsConfigs ==
    {[requests_per_hour |-> 0, min_delay |-> 0,
      burst_limit |-> 3, cooldown_after_burst |-> 55 * Tenth,
      randomize_timing |-> FALSE],
     [requests_per_hour |-> 1, min_delay |-> 2 * TicksPerSecond,
      burst_limit |-> 2, cooldown_after_burst |-> 55 * Tenth,
      randomize_timing |-> FALSE],
     [requests_per_hour |-> 1, min_delay |-> 0,
      burst_limit |-> 3, cooldown_after_burst |-> 55 * Tenth,
      randomize_timing |-> TRUE],
     [requests_per_hour |-> 2, min_delay |-> 2 * TicksPerSecond,
      burst_limit |-> 3, cooldown_after_burst |-> 55 * Tenth,
      randomize_timing |-> FALSE]}

\* "except (ConnectionException, Exception) as e" of the wrapper around
\* analyze_posts, for the exception class o that left the function: the
\* wrapper's variables as RetryInvoke assigns them for a failed call
PostsExcept(o, f) ==
    /\ outcomes' = Append(outcomes, o)
    /\ LET h == Handle(o, attempt, max_attempts, requests_available)
       IN IF h = "sleep"
          THEN /\ r_wait' = BackoffWait(attempt, f)
               /\ draws' = Append(draws, f)
               /\ r_pc' = "sleep"
               /\ UNCHANGED <<propagated, logged, result>>
          ELSE /\ r_pc' = "raised"
               /\ propagated' = o
               /\ logged' = (h = "raise_logged")
               /\ UNCHANGED <<r_wait, result, draws>>
    /\ UNCHANGED <<requests_available, max_attempts, attempt, sleeps>>

\* "for idx, post in enumerate(profile.get_posts(), 1)": the loop head draws
\* the next post from the iterator, a remote page fetch taking d ticks, once
\* the previous iteration is over; "if idx > max_posts: break" ends the loop,
\* analyze_posts returns posts_data and the wrapper returns it
FetchPosts(d) ==
    /\ r_pc = "call"
    /\ pc = "idle"
    /\ ~admitted
    /\ idx = MaxPosts - calls_left
    /\ clock' = clock + d
    /\ idx' = idx + 1
    /\ stats' = NoStats
    /\ IF idx + 1 > MaxPosts
       THEN /\ r_pc' = "returned"
            /\ result' = "value"
            /\ outcomes' = Append(outcomes, "ok")
       ELSE UNCHANGED <<r_pc, result, outcomes>>
    /\ UNCHANGED <<config, pc, now, wait_time, request_history, limiterVars,
                   error, admitted, calls_left, ghostVars, waits>>
    /\ UNCHANGED <<requests_available, max_attempts, attempt, r_wait, sleeps,
                   propagated, logged, draws>>

\* the page fetch of the loop head raises o after d ticks: the for statement
\* is outside the try of the loop body, so o leaves analyze_posts and reaches
\* the except clause of the wrapper
FetchPostsFails(d, o, f) ==
    /\ r_pc = "call"
    /\ pc = "idle"
    /\ ~admitted
    /\ idx = MaxPosts - calls_left
    /\ idx <= MaxFailIdx
    /\ clock' = clock + d
    /\ stats' = NoStats
    /\ PostsExcept(o, f)
    /\ UNCHANGED <<config, pc, now, wait_time, request_history, limiterVars,
                   error, admitted, calls_left, ghostVars, waits, idx>>

\* "self.rate_limiter.wait_if_needed()" in the loop body, for the post drawn
\* at the loop head
AdmitPost ==
    /\ r_pc = "call"
    /\ idx = MaxPosts - calls_left + 1
    /\ AdmitEnter(0)

\* wait_if_needed raised ValueError in the loop body, outside the try: the
\* exception leaves analyze_posts and reaches the except clause of the wrapper
WaitIfNeededRaises(f) ==
    /\ r_pc = "call"
    /\ pc = "raised"
    /\ error = "ValueError"
    /\ PostsExcept(error, f)
    /\ UNCHANGED <<clock, governorVars>>

\* "time.sleep(wait_time)" of the wrapper and the next iteration of its for
\* loop: analyze_posts runs again from the first post with fresh locals, on
\* the same rate limiter
PostsRetrySleep ==
    /\ r_pc = "sleep"
    /\ clock' = clock + r_wait
    /\ sleeps' = Append(sleeps, r_wait)
    /\ attempt' = attempt + 1
    /\ IF attempt + 1 < max_attempts
       THEN /\ r_pc' = "call"
            /\ UNCHANGED result
       ELSE /\ r_pc' = "returned"
            /\ result' = "None"
    /\ idx' = 0
    /\ calls_left' = MaxPosts
    /\ pc' = "idle"
    /\ error' = "none"
    /\ admitted' = FALSE
    /\ stats' = NoStats
    /\ UNCHANGED <<config, now, wait_time, request_history, limiterVars,
                   ghostVars, waits>>
    /\ UNCHANGED <<requests_available, max_attempts, r_wait, outcomes,
                   propagated, logged, draws>>

\* analyze_posts(profile, max_posts = MaxPosts) on a fresh limiter, for a
\* profile with more than max_posts posts
InitPosts ==
    /\ config \in PostsConfigs
    /\ calls_left = MaxPosts
    /\ requests_available = TRUE
    /\ InitLimiter
    /\ InitRetry

\* the decorated analyze_posts: the loop, whose try block either reaches
\* record_request or raises and continues with the next post, inside the
\* wrapper of retry_with_backoff
NextPosts ==
    \/ RetryStart(PostsMaxAttempts)
    \/ \E d \in FetchDurations : FetchPosts(d)
    \/ \E d \in FetchDurations, o \in PostsFailures, f \in JitterDraws :
           FetchPostsFails(d, o, f)
    \/ AdmitPost
    \/ CooldownStep
    \/ CooldownSleep
    \/ QuotaStep
    \/ QuotaSleep
    \/ \E f \in JitterDraws : SpacingStep(f)
    \/ BurstStep
    \/ BurstSleep
    \/ \E d \in HumanDraws : HumanStep(d)
    \/ \E d \in TryDurations : RecordRequest(d)
    \/ \E d \in TryDurations : RemoteCallFails(d)
    \/ \E f \in JitterDraws : WaitIfNeededRaises(f)
    \/ PostsRetrySleep

SpecPosts == InitPosts /\ [][NextPosts]_vars

TypeOK ==
    /\ pc \in {"idle", "cooldown", "cooldown_sleep", "quota", "quota_sleep",
               "spacing", "burst", "burst_sleep", "human", "raised"}
    /\ error \in {"none", "ValueError", "ZeroDivisionError"}
    /\ Len(request_history) <= HistoryMaxLen
    /\ r_pc \in {"idle", "call", "sleep", "returned", "raised"}
    /\ propagated \in {"none", "ValueError"} \cup Transient \cup NonRetryable
    /\ calls_left >= 0

\* the clock is fine enough: wherever the spacing step or the retry wrapper
\* is about to compute random.uniform(-0.3, 0.3) * wait_time, the product with
\* the extreme draws is a whole number of ticks, so Jitter is the code's value
JitterIsExact ==
    /\ (/\ pc = "spacing"
        /\ last_request # NoTime
        /\ now - last_request < config.min_delay)
           => (JitterTenths * (config.min_delay - (now - last_request))) % 10 = 0
    /\ r_pc = "call" => (RetryJitterTenths * BackoffDelay(attempt)) % 10 = 0

\* ------------------------------------------------------------------- claims

\* C1 (quota invariant): with requests_per_hour >= 1 and record_request called
\* only after an awaited wait_if_needed, the number of history entries inside
\* the trailing hour (t > clock - 1 h) never exceeds requests_per_hour.
QuotaInvariant ==
    config.requests_per_hour >= 1 =>
        Len(RecentRequests(request_history, clock - OneHour))
            <= config.requests_per_hour

\* C2 (spacing invariant): any two consecutive record_request timestamps are at
\* least min_delay * (1 - 0.3) apart, for every jitter draw and with the
\* humanization delay on or off.
SpacingInvariant ==
    \A i \in 1..Len(recorded) :
        i >= 2 =>
            10 * (recorded[i] - recorded[i - 1])
                >= (10 - JitterTenths) * config.min_delay

\* two records exactly 0.7 * min_delay apart: the spacing wait ran with the
\* lowest jitter draw and nothing else delayed the request
SpacingTight ==
    /\ Len(recorded) >= 2
    /\ config.min_delay > 0
    /\ 10 * (recorded[Len(recorded)] - recorded[Len(recorded) - 1])
           = (10 - JitterTenths) * config.min_delay

\* C7 (the governor never fails): no call of wait_if_needed, record_request or
\* get_stats raises, for every configuration with non-negative parameters.
GovernorNeverFails == error = "none"

\* C8 (quota wait): when the quota check fired, the time slept is between 0 and
\* 3600 s and wait_if_needed goes on to the spacing step no earlier than
\* min(recent) + 1 h, when the oldest entry has left the trailing hour.
QuotaWaitReachesDeadline ==
    (pc = "spacing" /\ quota_deadline # NoTime) =>
        /\ 0 <= SleepWithProgress(wait_time)
        /\ SleepWithProgress(wait_time) <= OneHour
        /\ clock >= quota_deadline
        /\ RecentRequests(<<quota_deadline - OneHour>>, clock - OneHour) = <<>>

\* C9 (cooldown status): in every state the cooling-down flag reported by
\* get_stats is true exactly when cooldown_until is set and clock < cooldown_until.
CooldownFlagExact ==
    is_cooling_down <=> (cooldown_until # NoTime /\ clock < cooldown_until)
\* C4 (non-retryable short-circuit): a call of the wrapped function that fails
\* with a non-retryable class is the last call; the wrapper re-raises that
\* error at once, and the only sleeps are those of the failures before it (none
\* when it is attempt 0).
NonRetryableShortCircuit ==
    \A i \in 1..Len(outcomes) :
        outcomes[i] \in NonRetryable =>
            /\ i = Len(outcomes)
            /\ r_pc = "raised"
            /\ propagated = outcomes[i]
            /\ Len(sleeps) = i - 1

\* a non-retryable failure on attempt 0 of 3: one call, no sleep
NonRetryableFirstAttempt ==
    /\ max_attempts = 3
    /\ outcomes = <<"ProfileNotExistsException">>
    /\ r_pc = "raised"
    /\ sleeps = <<>>

\* every call of the wrapped function so far failed with a transient error
AllTransient == \A i \in 1..Len(outcomes) : outcomes[i] \in Transient

\* C5 (retry exhaustion): for max_attempts >= 1, when every call failed with a
\* transient error and the wrapper is done, it made exactly max_attempts calls,
\* slept exactly max_attempts - 1 times and re-raised the last error; it never
\* makes more calls or sleeps than that on the way.
RetryExhaustion ==
    (max_attempts >= 1 /\ AllTransient) =>
        /\ Len(outcomes) <= max_attempts
        /\ Len(sleeps) <= max_attempts - 1
        /\ r_pc \in {"raised", "returned"} =>
               /\ r_pc = "raised"
               /\ Len(outcomes) = max_attempts
               /\ Len(sleeps) = max_attempts - 1
               /\ propagated = outcomes[Len(outcomes)]

\* three transient failures out of max_attempts = 3
ExhaustedAfterThree ==
    /\ max_attempts = 3
    /\ Len(outcomes) = 3
    /\ AllTransient
    /\ r_pc = "raised"
    /\ Len(sleeps) = 2

\* C6 as stated: the outcome handed to the caller when max_attempts is reached
\* without success differs from every outcome of a direct non-retryable
\* failure (the wrapper hands the caller the re-raised exception and nothing
\* else, so a direct non-retryable failure is an exception of a class in
\* NonRetryable).
ExhaustedSignalDistinct ==
    (r_pc = "raised" /\ Len(outcomes) = max_attempts) =>
        propagated \notin NonRetryable

\* C6 as amended: the wrapper re-raises the last error unchanged, with no tag;
\* it re-raises a transient error only on the last attempt, and that is
\* exactly when it logs "failed after N attempts"; a non-retryable error on
\* the last attempt is re-raised as on any other attempt.
ExhaustionByErrorClassOnly ==
    r_pc = "raised" =>
        /\ propagated = outcomes[Len(outcomes)]
        /\ logged <=> propagated \in Transient
        /\ propagated \in Transient => Len(outcomes) = max_attempts
        /\ propagated \in NonRetryable => ~logged

\* all attempts failed and the last error is non-retryable: the caller gets
\* what it gets from a direct non-retryable failure
ExhaustedWithNonRetryable ==
    /\ r_pc = "raised"
    /\ max_attempts = 3
    /\ Len(outcomes) = 3
    /\ propagated \in NonRetryable
    /\ ~logged
\* C3 (burst trigger) as stated: with burst_limit = 10, the wait_if_needed call
\* entered inside the burst window after 10 admit+record cycles of that window
\* blocks for at least cooldown_after_burst, and is_cooling_down is true during
\* its waits.
BurstTriggerOnEleventh ==
    (config.burst_limit = 10 /\ eleventh) =>
        /\ (pc = "idle" /\ admitted) => clock - now >= config.cooldown_after_burst
        /\ pc \in {"cooldown_sleep", "quota_sleep", "burst_sleep"} => is_cooling_down

\* the last min(n, k) entries of s
LastN(s, k) == SubSeq(s, Len(s) - Min(Len(s), k) + 1, Len(s))

\* C10 (bounded history): request_history holds at most 200 timestamps, and
\* they are the timestamps of the last min(n, 200) record_request calls, in
\* the order of the calls.
HistoryIsLast200 ==
    /\ Len(request_history) <= HistoryMaxLen
    /\ request_history = LastN(recorded, HistoryMaxLen)

\* a 201st (or later) record_request has evicted the oldest entry
HistoryEvicted ==
    /\ Len(recorded) > HistoryMaxLen
    /\ Len(request_history) = HistoryMaxLen
    /\ request_history[1] = recorded[Len(recorded) - HistoryMaxLen + 1]
    /\ request_history[1] # recorded[1]
\* C11 (record bookkeeping): requests_made equals the number of record_request
\* calls made so far, and last_request, once set, is the time of the last call
\* and the newest entry of request_history.
RecordBookkeeping ==
    /\ requests_made = Len(recorded)
    /\ last_request = NoTime <=> recorded = <<>>
    /\ last_request # NoTime =>
           /\ last_request = recorded[Len(recorded)]
           /\ last_request = request_history[Len(request_history)]
           /\ last_request <= clock

\* more record_request calls than request_history can hold
RecordedBeyondHistory ==
    /\ requests_made > HistoryMaxLen
    /\ Len(request_history) = HistoryMaxLen
    /\ last_request = request_history[HistoryMaxLen]

\* C12 (get_stats is a pure read): a get_stats call that returns changes neither
\* request_history nor any field of the limiter state, and returns
\* requests_made, the number of history entries newer than clock - 1 h, the
\* configured requests_per_hour and is_cooling_down.
StatsIsPureRead ==
    [][(stats = NoStats /\ stats' # NoStats) =>
          /\ UNCHANGED <<clock, request_history, requests_made, last_request,
                         burst_count, burst_start, is_cooling_down,
                         cooldown_until>>
          /\ stats' =
                 [total_requests |-> requests_made,
                  last_hour |->
                      Cardinality({i \in 1..Len(request_history) :
                                      request_history[i] > clock - OneHour}),
                  limit |-> config.requests_per_hour,
                  is_cooling_down |-> is_cooling_down]]_vars

\* get_stats returned while request_history holds an entry older than one hour
StatsWithOldEntry ==
    /\ stats # NoStats
    /\ stats.total_requests >= 1
    /\ stats.last_hour < Len(request_history)
\* C13 (backoff delay): the i-th sleep of the retry wrapper never exceeds
\* max_delay; with a jitter draw of 0 it is
\* min(max_delay, base_delay * exponential_base ** (i - 1)), which strictly
\* increases from one attempt to the next while below max_delay (5 s, 10 s,
\* 20 s first) and equals max_delay from the seventh sleep on.
BackoffDelayLaw ==
    /\ \A i \in 1..Len(sleeps) :
           /\ sleeps[i] <= RetryMaxDelay
           /\ sleeps[i] >= 0
           /\ draws[i] = 0 =>
                  sleeps[i] = Min(RetryMaxDelay,
                                  RetryBaseDelay * Pow(RetryExponentialBase, i - 1))
           /\ (draws[i] = 0 /\ i >= 7) => sleeps[i] = RetryMaxDelay
    /\ \A i, j \in 1..Len(sleeps) :
           (i < j /\ draws[i] = 0 /\ draws[j] = 0 /\ sleeps[i] < RetryMaxDelay)
               => sleeps[i] < sleeps[j]

\* seven sleeps without jitter: 5 s, 10 s, 20 s, ... and the last one clamped
BackoffReachesMaxDelay ==
    /\ Len(sleeps) >= 7
    /\ \A i \in 1..Len(sleeps) : draws[i] = 0
    /\ sleeps[1] = 5 * TicksPerSecond
    /\ sleeps[2] = 10 * TicksPerSecond
    /\ sleeps[3] = 20 * TicksPerSecond
    /\ sleeps[6] < RetryMaxDelay
    /\ sleeps[7] = RetryMaxDelay
\* C14 (call ordering in the callers): every remote call is made while an
\* admit is outstanding (wait_if_needed returned and neither record_request nor
\* a failure followed it yet); record_request is called only after such a
\* remote call succeeded and ends the admit, so at most once per admit; a
\* failed remote call records nothing.
CallOrdering ==
    [][/\ idx' = idx + 1 => admitted
       /\ requests_made' # requests_made =>
              /\ admitted /\ ~admitted'
              /\ requests_made' = requests_made + 1
       /\ (admitted /\ ~admitted' /\ pc' = "idle"
           /\ request_history' = request_history) =>
              requests_made' = requests_made]_vars
\* C15 (history is time-ordered): the entries of request_history are in
\* non-decreasing order from oldest to newest, so the oldest entry inside the
\* trailing hour, min(recent_requests), is the first such entry in insertion
\* order, for the hour ending at the current time and at the entry of the
\* running wait_if_needed.
HistoryOrdered ==
    /\ \A i, j \in 1..Len(request_history) :
           i <= j => request_history[i] <= request_history[j]
    /\ \A t \in {clock, now} :
           LET recent == RecentRequests(request_history, t - OneHour)
           IN recent # <<>> => Oldest(recent) = recent[1]

\* three entries at increasing times, the first one older than one hour
HistoryWithExpiredHead ==
    /\ Len(request_history) = 3
    /\ request_history[1] <= clock - OneHour
    /\ request_history[2] > clock - OneHour
    /\ request_history[2] < request_history[3]

\* C16 (cooldown step): when wait_if_needed has waited in its cooldown step
\* and the quota step is about to run, the clock has reached cooldown_until,
\* is_cooling_down is cleared and burst_count is 0.
CooldownWaitClears ==
    (pc = "quota" /\ waits # <<>> /\ waits[1].step = "cooldown") =>
        /\ clock >= cooldown_until
        /\ ~is_cooling_down
        /\ burst_count = 0

\* C17 (fresh clock after a wait): when the quota, spacing or burst step of
\* wait_if_needed is about to run, the time it computes with is the current
\* clock value, also after an earlier step of the same call has slept.
StepsUseCurrentTime ==
    pc \in {"quota", "spacing", "burst"} => now = clock

\* C18 (fixed step order): wait_if_needed runs cooldown check, quota check,
\* minimum spacing, burst detection and humanization in this order; a step
\* that waited is followed by the next step, and the call returns only after
\* the last step (or raises in the quota step).
FixedStepOrder ==
    [][/\ (pc = "idle" /\ pc' \notin {"idle", "raised"}) => pc' = "cooldown"
       /\ pc = "cooldown" => pc' \in {"cooldown_sleep", "quota"}
       /\ pc = "cooldown_sleep" => pc' = "quota"
       /\ pc = "quota" =>
              \/ pc' \in {"quota_sleep", "spacing"}
              \/ pc' = "raised" /\ error' = "ValueError"
       /\ pc = "quota_sleep" => pc' = "spacing"
       /\ pc = "spacing" => pc' = "burst"
       /\ pc = "burst" => pc' \in {"burst_sleep", "human"}
       /\ pc = "burst_sleep" => pc' = "human"
       /\ pc = "human" => (pc' = "idle" /\ admitted')
       /\ (~admitted /\ admitted') => pc = "human"]_vars

\* one wait_if_needed call that slept in the cooldown, quota, spacing and
\* burst steps, in this order
AllFourWaits ==
    /\ Len(waits) >= 4
    /\ waits[1].step = "cooldown" /\ waits[1].seconds > 0
    /\ waits[2].step = "quota" /\ waits[2].seconds > 0
    /\ waits[3].step = "spacing" /\ waits[3].seconds > 0
    /\ waits[4].step = "burst" /\ waits[4].seconds > 0

\* C19 (burst step): run at the current time, the burst step sets
\* burst_start to that time and burst_count to 1, and no cooldown, when
\* burst_start is unset or at least 10 s old; otherwise it adds 1 to
\* burst_count and, exactly when the new count reaches burst_limit, sets
\* cooldown_until to the current time plus cooldown_after_burst, sleeps
\* cooldown_after_burst and leaves burst_count at 0.
BurstStepLaw ==
    [][/\ pc = "burst" =>
              IF burst_start = NoTime \/ clock - burst_start >= BurstWindow
              THEN /\ burst_start' = clock
                   /\ burst_count' = 1
                   /\ cooldown_until' = cooldown_until
                   /\ pc' = "human"
              ELSE /\ burst_start' = burst_start
                   /\ burst_count' = burst_count + 1
                   /\ IF burst_count + 1 >= config.burst_limit
                      THEN /\ cooldown_until' = clock + config.cooldown_after_burst
                           /\ pc' = "burst_sleep"
                      ELSE /\ cooldown_until' = cooldown_until
                           /\ pc' = "human"
       /\ pc = "burst_sleep" =>
              /\ clock' = clock + config.cooldown_after_burst
              /\ burst_count' = 0]_vars

\* C20 (no negative sleep): every duration that the running wait_if_needed
\* handed to a sleep, in any of its five steps, is at least 0.
SleepsNonNegative ==
    \A i \in 1..Len(waits) : waits[i].seconds >= 0

\* one wait_if_needed call that slept in the quota, spacing and humanization
\* steps, the spacing wait shortened by the jitter
ThreeSleepsInOneAdmit ==
    /\ Len(waits) = 3
    /\ waits[1].step = "quota"
    /\ waits[2].step = "spacing"
    /\ waits[2].seconds < config.min_delay
    /\ waits[3].step = "human"
\* C21 (retry, success path): when the wrapper has returned the result of the
\* wrapped function, the last call is the only successful one and every call
\* before it raised a retried exception; with k failed calls there were k + 1
\* calls (k < max_attempts) and k sleeps, and the i-th sleep is the backoff
\* wait of attempt index i - 1 for the jitter drawn at that attempt.
RetrySuccessPath ==
    result = "value" =>
        LET k == Len(outcomes) - 1
        IN /\ r_pc = "returned"
           /\ k >= 0 /\ k < max_attempts
           /\ outcomes[k + 1] = "ok"
           /\ \A i \in 1..k : outcomes[i] \in Transient
           /\ Len(sleeps) = k
           /\ Len(draws) = k
           /\ \A i \in 1..k :
                  LET delay == RetryBaseDelay * Pow(RetryExponentialBase, i - 1)
                  IN sleeps[i] = Min(delay + Jitter(draws[i], delay), RetryMaxDelay)

\* success on the third call, after two sleeps with the lowest and the
\* highest jitter draw: 3.5 s and 13 s
SucceededOnThirdCall ==
    /\ result = "value"
    /\ Len(outcomes) = 3
    /\ draws = <<0 - RetryJitterTenths, RetryJitterTenths>>
    /\ sleeps = <<35 * Tenth, 130 * Tenth>>
\* C22 (termination): every wait_if_needed call that has started ends, by
\* returning or by raising, and every call of the retry wrapper ends after at
\* most max_attempts calls of the wrapped function; a wait_if_needed call
\* sleeps at most once in each step, at most 3600 s for the quota, at most
\* 1.3 * min_delay for the spacing, cooldown_after_burst for the burst
\* cooldown and at most 2.0 s for the humanization delay.
AlwaysTerminates ==
    /\ [](/\ \A i, j \in 1..Len(waits) : i # j => waits[i].step # waits[j].step
          /\ \A i \in 1..Len(waits) :
                 /\ waits[i].seconds >= 0
                 /\ waits[i].step = "cooldown" =>
                        waits[i].seconds <= config.cooldown_after_burst
                 /\ waits[i].step = "quota" => waits[i].seconds <= OneHour
                 /\ waits[i].step = "spacing" =>
                        10 * waits[i].seconds <= 13 * config.min_delay
                 /\ waits[i].step = "burst" =>
                        waits[i].seconds = config.cooldown_after_burst
                 /\ waits[i].step = "human" => waits[i].seconds <= HumanMax
          /\ r_pc # "idle" => Len(outcomes) <= max_attempts)
    /\ (pc = "cooldown") ~> ((pc = "idle" /\ admitted) \/ pc = "raised")
    /\ (r_pc = "call") ~> (r_pc \in {"returned", "raised"})

\* a wait_if_needed call that returned after sleeping in four steps
ReturnedAfterFourWaits ==
    /\ pc = "idle"
    /\ admitted
    /\ Len(waits) >= 4
    /\ waits[2].step = "quota"
    /\ waits[2].seconds = OneHour
\* C23 (no burst under the default configuration): when every wait_if_needed
\* is followed by record_request before the next wait_if_needed, burst_count
\* stays below burst_limit and no cooldown is ever set, with the humanization
\* delay on or off.
DefaultNeverBursts ==
    /\ burst_count < config.burst_limit
    /\ ~is_cooling_down
    /\ cooldown_until = NoTime
    /\ pc \notin {"burst_sleep", "cooldown_sleep"}

\* nine wait_if_needed calls inside one 10-second window, one short of
\* burst_limit, each after the record_request of the previous one
NineInOneWindow ==
    /\ burst_count = config.burst_limit - 1
    /\ requests_made = config.burst_limit - 2
    /\ pc = "human"
    /\ now - burst_start < BurstWindow
\* C24 (disjoint writes): no step of wait_if_needed changes request_history,
\* last_request or requests_made; record_request changes none of burst_start,
\* burst_count, is_cooling_down and cooldown_until; and a remote call that
\* fails after wait_if_needed returned changes none of these seven.
DisjointWrites ==
    [][/\ (pc # "idle" \/ pc' = "cooldown") =>
              UNCHANGED <<request_history, last_request, requests_made>>
       /\ recorded' # recorded =>
              UNCHANGED <<burst_start, burst_count, is_cooling_down,
                          cooldown_until>>
       /\ (admitted /\ ~admitted' /\ recorded' = recorded) =>
              UNCHANGED <<request_history, last_request, requests_made,
                          burst_start, burst_count, is_cooling_down,
                          cooldown_until>>]_vars

\* two admitted requests whose remote calls failed: counted by the burst
\* detection, absent from the quota history and from the spacing check
FailedCallsCountAsBurst ==
    /\ burst_count = 2
    /\ pc = "idle"
    /\ ~admitted
    /\ request_history = <<>>
    /\ last_request = NoTime
    /\ requests_made = 0

\* C25 (burst state between calls): with burst_limit >= 2, whenever no
\* wait_if_needed is running, burst_count is between 0 and burst_limit - 1,
\* burst_count >= 1 implies that burst_start is set, and is_cooling_down
\* implies that cooldown_until is set.
BurstStateBetweenCalls ==
    (pc \in {"idle", "raised"} /\ config.burst_limit >= 2) =>
        /\ burst_count >= 0
        /\ burst_count <= config.burst_limit - 1
        /\ burst_count >= 1 => burst_start # NoTime
        /\ is_cooling_down => cooldown_until # NoTime

\* between calls after a burst: the flag is still set and burst_count is
\* again one short of burst_limit
CoolingWithCountBelowLimit ==
    /\ pc = "idle"
    /\ admitted
    /\ is_cooling_down
    /\ cooldown_until # NoTime
    /\ burst_count = config.burst_limit - 1
    /\ Len(waits) >= 1
    /\ waits[1].step = "cooldown"
====
